---- MODULE Spec2Model ----
(***************************************************************************)
(* Model of src/gsl/qawf.rs: the QAWF wrapper around gsl_integration_qawf. *)
(* The state is a small store of QAWF values (the caller's variables), the *)
(* native heap of workspaces and QAWO tables they point into, and the      *)
(* position of the one integrate call that may be in flight.               *)
(***************************************************************************)
EXTENDS Integers, FiniteSets, Sequences, TLC

\* ----------------------------------------------------------------- bounds
MaxAllocs  == 3   \* operations of one run that allocate (each makes three handles)
MaxN       == 2   \* largest subinterval count requested
MaxBound   == 1   \* largest lower bound requested
MaxOmega   == 2   \* largest angular frequency requested
MaxTol     == 1   \* largest tolerance requested (tolerances are 0..MaxTol)
MaxDim     == 2   \* largest dimension of an integrand's input or output
MaxEvals   == 2   \* most evaluations of the integrand in one native call
MaxCode    == 2   \* largest native return code
MaxVal     == 2   \* largest value the native routine writes back

\* the caller's two variables: a QAWF q and a second QAWF p (a clone of q, say)
Slots    == {"q", "p"}
MaxHandles == 3 * MaxAllocs
Handles  == 1..MaxHandles
NVals    == 1..MaxN
Bounds   == 0..MaxBound
Omegas   == 1..MaxOmega
Tols     == 0..MaxTol
Codes    == 0..MaxCode
Vals     == 1..MaxVal

\* bindings::GSL_SUCCESS
GSL_SUCCESS == 0

\* an integrand: the dimension of its input and output, and the evaluation at
\* which the closure panics (0: it never does)
Integrands == [dim : 1..MaxDim, panicAt : 0..MaxEvals]

\* GSLIntegrationQAWOEnum
Sine   == "Sine"
Cosine == "Cosine"

VARIABLES
  inst,     \* slot -> the QAWF value held there (live = FALSE: none)
  heap,     \* handle -> the native object allocated under it
  nhandles, \* number of native allocations made so far
  lastn,    \* slot -> n of the most recent new / with_nintervals of the value
  last,     \* the last operation performed: its name, its slot and its argument
  pc,       \* position of the integrate call: idle, native, returned, done
  call,     \* the arguments of the integrate call in flight
  lp,       \* its LandingPad
  value,    \* its local `value`
  error,    \* its local `error`
  retcode,  \* its local `retcode`
  native,   \* what gsl_integration_qawf was given and did during the call
  outcome,  \* how the call ended
  prev      \* the call before this one, when the caller repeats a call

qawfvars == <<inst, heap, nhandles, lastn>>
callvars == <<pc, call, lp, value, error, retcode, native, outcome, prev>>
vars == <<inst, heap, nhandles, lastn, last, pc, call, lp, value, error, retcode, native, outcome, prev>>

\* ------------------------------------------------------------ native heap
NoObject == [kind |-> "none", n |-> 0, omega |-> 0, L |-> 0, sine |-> Sine, frees |-> 0]

\* gsl_integration_workspace_alloc(n), behind GSLIntegrationWorkspace::new
workspace_alloc(n) ==
  [kind |-> "workspace", n |-> n, omega |-> 0, L |-> 0, sine |-> Sine, frees |-> 0]

\* gsl_integration_qawo_table_alloc(omega, L, sine, n), behind GSLIntegrationQAWOTable::new
qawo_table_alloc(n, omega, L, sine) ==
  [kind |-> "qawo_table", n |-> n, omega |-> omega, L |-> L, sine |-> sine, frees |-> 0]

\* gsl_integration_workspace_free / gsl_integration_qawo_table_free, behind Drop
native_free(h, hp) ==
  [hp EXCEPT ![h] = [NoObject EXCEPT !.kind = hp[h].kind, !.frees = hp[h].frees + 1]]

\* the wrapper structs: a raw handle, and for a workspace the limit it was sized for
GSLIntegrationWorkspace(h, n) == [wkspc |-> h, nintervals |-> n]
GSLIntegrationQAWOTable(h)    == [table |-> h]

NoQAWF ==
  [live |-> FALSE, lower_bound |-> 0,
   wkspc |-> GSLIntegrationWorkspace(0, 0),
   cycle_wkspc |-> GSLIntegrationWorkspace(0, 0),
   table |-> GSLIntegrationQAWOTable(0)]

NoOp == [op |-> "none", slot |-> "q", arg |-> 0]

\* ------------------------------------------- the wrappers QAWF is built of
\* Each operator takes the heap hp and the number k of allocations made so far
\* and yields the value built together with the heap it leaves behind.

\* GSLIntegrationWorkspace::new(n): one native workspace of n subintervals
GSLIntegrationWorkspace_new(n, hp, k) ==
  [v |-> GSLIntegrationWorkspace(k + 1, n),
   heap |-> [hp EXCEPT ![k + 1] = workspace_alloc(n)]]

\* GSLIntegrationQAWOTable::new(n, omega, L, sine)
GSLIntegrationQAWOTable_new(n, omega, L, sine, hp, k) ==
  [v |-> GSLIntegrationQAWOTable(k + 1),
   heap |-> [hp EXCEPT ![k + 1] = qawo_table_alloc(n, omega, L, sine)]]

\* GSLIntegrationQAWOTable::with_nintervals(self, n): a table of the same weight
\* for n subintervals replaces the old one, which is released
GSLIntegrationQAWOTable_with_nintervals(t, n, hp, k) ==
  LET old == hp[t.table]
      r   == GSLIntegrationQAWOTable_new(n, old.omega, old.L, old.sine, hp, k)
  IN  [v |-> r.v, heap |-> native_free(t.table, r.heap)]

\* GSLIntegrationQAWOTable::with_sin / with_cos (self, omega): the weight of the
\* table is set in place (gsl_integration_qawo_table_set)
GSLIntegrationQAWOTable_with_weight(t, omega, sine, hp) ==
  [v |-> t, heap |-> [hp EXCEPT ![t.table].omega = omega, ![t.table].sine = sine]]

\* Clone for GSLIntegrationWorkspace: a workspace of its own, of the same size
GSLIntegrationWorkspace_clone(w, hp, k) == GSLIntegrationWorkspace_new(w.nintervals, hp, k)

\* Clone for GSLIntegrationQAWOTable: a table of its own, of the same weight and size
GSLIntegrationQAWOTable_clone(t, hp, k) ==
  LET o == hp[t.table] IN GSLIntegrationQAWOTable_new(o.n, o.omega, o.L, o.sine, hp, k)

\* ------------------------------------------------------------------- QAWF
\* QAWF::new with the table made for the cosine weight
new_cosine(nintervals, hp, k) ==
  LET w == GSLIntegrationWorkspace_new(nintervals, hp, k)
      c == GSLIntegrationWorkspace_new(nintervals, w.heap, k + 1)
      t == GSLIntegrationQAWOTable_new(nintervals, 1, 1, Cosine, c.heap, k + 2)
  IN  [v |-> [live |-> TRUE, lower_bound |-> 0,
              wkspc |-> w.v, cycle_wkspc |-> c.v, table |-> t.v],
       heap |-> t.heap]

\* QAWF::new(nintervals)
new(nintervals, hp, k) ==
  LET w == GSLIntegrationWorkspace_new(nintervals, hp, k)
      c == GSLIntegrationWorkspace_new(nintervals, w.heap, k + 1)
      t == GSLIntegrationQAWOTable_new(nintervals, 1, 1, Sine, c.heap, k + 2)
  IN  [v |-> [live |-> TRUE, lower_bound |-> 0,
              wkspc |-> w.v, cycle_wkspc |-> c.v, table |-> t.v],
       heap |-> t.heap]

\* with_nintervals that forgets the table (`..self` moves the old one over)
with_nintervals_table_kept(self, nintervals, hp, k) ==
  LET w == GSLIntegrationWorkspace_new(nintervals, hp, k)
      c == GSLIntegrationWorkspace_new(nintervals, w.heap, k + 1)
  IN  [v |-> [self EXCEPT !.wkspc = w.v, !.cycle_wkspc = c.v],
       heap |-> native_free(self.cycle_wkspc.wkspc, native_free(self.wkspc.wkspc, c.heap))]

\* with_nintervals that forgets cycle_wkspc (`..self` moves the old one over)
with_nintervals_cycle_kept(self, nintervals, hp, k) ==
  LET w == GSLIntegrationWorkspace_new(nintervals, hp, k)
      t == GSLIntegrationQAWOTable_with_nintervals(self.table, nintervals, w.heap, k + 2)
  IN  [v |-> [self EXCEPT !.wkspc = w.v, !.table = t.v],
       heap |-> native_free(self.wkspc.wkspc, t.heap)]

\* QAWF::with_nintervals(self, nintervals); the two workspaces of self are not
\* moved into the result and are dropped when the function returns
with_nintervals(self, nintervals, hp, k) ==
  LET w == GSLIntegrationWorkspace_new(nintervals, hp, k)
      c == GSLIntegrationWorkspace_new(nintervals, w.heap, k + 1)
      t == GSLIntegrationQAWOTable_with_nintervals(self.table, nintervals, c.heap, k + 2)
  IN  [v |-> [self EXCEPT !.wkspc = w.v, !.cycle_wkspc = c.v, !.table = t.v],
       heap |-> native_free(self.cycle_wkspc.wkspc, native_free(self.wkspc.wkspc, t.heap))]

\* QAWF::with_bound(self, lower_bound)
with_bound(self, lower_bound, hp) ==
  [v |-> [self EXCEPT !.lower_bound = lower_bound], heap |-> hp]

\* QAWF::with_sin(self, omega)
with_sin(self, omega, hp) ==
  LET t == GSLIntegrationQAWOTable_with_weight(self.table, omega, Sine, hp)
  IN  [v |-> [self EXCEPT !.table = t.v], heap |-> t.heap]

\* with_cos written as a copy of with_sin
with_cos_sine(self, omega, hp) ==
  LET t == GSLIntegrationQAWOTable_with_weight(self.table, omega, Sine, hp)
  IN  [v |-> [self EXCEPT !.table = t.v], heap |-> t.heap]

\* QAWF::with_cos(self, omega)
with_cos(self, omega, hp) ==
  LET t == GSLIntegrationQAWOTable_with_weight(self.table, omega, Cosine, hp)
  IN  [v |-> [self EXCEPT !.table = t.v], heap |-> t.heap]

\* a clone that copies the raw handles instead of cloning each field
clone_shallow(self, hp, k) == [v |-> self, heap |-> hp]

\* #[derive(Clone)] for QAWF: field by field
clone(self, hp, k) ==
  LET w == GSLIntegrationWorkspace_clone(self.wkspc, hp, k)
      c == GSLIntegrationWorkspace_clone(self.cycle_wkspc, w.heap, k + 1)
      t == GSLIntegrationQAWOTable_clone(self.table, c.heap, k + 2)
  IN  [v |-> [live |-> TRUE, lower_bound |-> self.lower_bound,
              wkspc |-> w.v, cycle_wkspc |-> c.v, table |-> t.v],
       heap |-> t.heap]

\* the drop glue of QAWF: each field is dropped, each releasing its handle
drop(self, hp) ==
  native_free(self.table.table,
    native_free(self.cycle_wkspc.wkspc, native_free(self.wkspc.wkspc, hp)))

\* -------------------------------------------------------------- integrate
NoFun     == [dim |-> 1, panicAt |-> 0]
NoCall    == [slot |-> "q", fun |-> NoFun, epsrel |-> 0, epsabs |-> 0]
NoArgs    == [f |-> NoFun, a |-> 0, epsabs |-> 0, limit |-> 0,
              workspace |-> 0, cycle_workspace |-> 0, wf |-> 0]
NoNative  == [ncalls |-> 0, args |-> NoArgs, evals |-> 0, returned |-> FALSE,
              retcode |-> 0, result |-> 0, abserr |-> 0]
NoOutcome == [tag |-> "none", kind |-> "none", code |-> 0, value |-> 0, error |-> 0]
NoPrev    == [set |-> FALSE, epsrel |-> 0, native |-> NoNative, panicked |-> FALSE,
              outcome |-> NoOutcome]

\* Result::Ok(IntegrationResult { value, error })
Ok(v, e) == [tag |-> "Ok", kind |-> "IntegrationResult", code |-> 0, value |-> v, error |-> e]
\* Result::Err(GSLIntegrationError::GSLError(code))
GSLError(c) == [tag |-> "Err", kind |-> "GSLError", code |-> c, value |-> 0, error |-> 0]
\* Result::Err of the error make_gsl_function returned, converted by `?`
MakeError(e) == [tag |-> "Err", kind |-> e, code |-> 0, value |-> 0, error |-> 0]
\* the captured panic of the integrand, resumed in the caller
Panic == [tag |-> "Panic", kind |-> "integrand", code |-> 0, value |-> 0, error |-> 0]

\* LandingPad::new(fun): the closure, and no failure captured yet
LandingPad_new(fun) == [fun |-> fun, panicked |-> FALSE]

\* the trampoline GSL calls: the k-th evaluation of the closure; a panic of the
\* closure is caught and kept in the landing pad, and GSL is handed a number
LandingPad_call(l, k) ==
  [l EXCEPT !.panicked = l.panicked \/ l.fun.panicAt = k]

\* LandingPad::maybe_resume_unwind: TRUE when a captured panic is resumed
maybe_resume_unwind(l) == l.panicked

\* make_gsl_function(&mut lp, range_low, range_high): a gsl_function over the
\* landing pad, or an error when the integrand is not a map of one real to one real
make_gsl_function(l, range_low, range_high) ==
  IF l.fun.dim = 1
  THEN [ok |-> TRUE,  function |-> l.fun, err |-> "none"]
  ELSE [ok |-> FALSE, function |-> NoFun, err |-> "InvalidDimension"]

\* integrate passing the relative tolerance where the absolute one belongs
qawf_args_epsrel(self, gslfn, epsrel, epsabs) ==
  [f |-> gslfn.function, a |-> self.lower_bound, epsabs |-> epsrel,
   limit |-> self.wkspc.nintervals,
   workspace |-> self.wkspc.wkspc,
   cycle_workspace |-> self.cycle_wkspc.wkspc,
   wf |-> self.table.table]

\* lines 78-86: the arguments integrate hands to gsl_integration_qawf
qawf_args(self, gslfn, epsrel, epsabs) ==
  [f |-> gslfn.function, a |-> self.lower_bound, epsabs |-> epsabs,
   limit |-> self.wkspc.nintervals,
   workspace |-> self.wkspc.wkspc,
   cycle_workspace |-> self.cycle_wkspc.wkspc,
   wf |-> self.table.table]

\* integrate going on to the native call whatever make_gsl_function returned
enters_native_always(gslfn) == TRUE

\* lines 75-77: TRUE when integrate goes on to call gsl_integration_qawf, FALSE
\* when `?` returns the error of make_gsl_function
enters_native(gslfn) == gslfn.ok

\* integrate examining the return code before it resumes a captured panic
finish_retcode_first(l, rc, v, e) ==
  IF rc # GSL_SUCCESS THEN GSLError(rc)
  ELSE IF maybe_resume_unwind(l) THEN Panic
  ELSE Ok(v, e)

\* integrate returning the value and the error estimate in each other's place
finish_swapped(l, rc, v, e) ==
  IF maybe_resume_unwind(l) THEN Panic
  ELSE IF rc # GSL_SUCCESS THEN GSLError(rc)
  ELSE Ok(e, v)

\* integrate with the comparison of the return code turned around
finish_inverted(l, rc, v, e) ==
  IF maybe_resume_unwind(l) THEN Panic
  ELSE IF rc = GSL_SUCCESS THEN GSLError(rc)
  ELSE Ok(v, e)

\* lines 88-96: what integrate does once gsl_integration_qawf has returned
finish(l, rc, v, e) ==
  IF maybe_resume_unwind(l) THEN Panic
  ELSE IF rc # GSL_SUCCESS THEN GSLError(rc)
  ELSE Ok(v, e)

Init ==
  /\ inst = [s \in Slots |-> NoQAWF]
  /\ heap = [h \in Handles |-> NoObject]
  /\ nhandles = 0
  /\ lastn = [s \in Slots |-> 0]
  /\ last = NoOp
  /\ pc = "idle"
  /\ call = NoCall
  /\ lp = LandingPad_new(NoFun)
  /\ value = 0
  /\ error = 0
  /\ retcode = 0
  /\ native = NoNative
  /\ outcome = NoOutcome
  /\ prev = NoPrev

\* ---------------------------------------------------------------- actions
Done(op, s, arg) == [op |-> op, slot |-> s, arg |-> arg]

\* let q = QAWF::new(n)
New(s, n) ==
  /\ pc = "idle"
  /\ ~inst[s].live
  /\ nhandles + 3 <= MaxHandles
  /\ LET r == new(n, heap, nhandles) IN
       /\ inst' = [inst EXCEPT ![s] = r.v]
       /\ heap' = r.heap
  /\ nhandles' = nhandles + 3
  /\ lastn' = [lastn EXCEPT ![s] = n]
  /\ last' = Done("new", s, n)
  /\ UNCHANGED callvars

\* q = q.with_nintervals(n)
WithNintervals(s, n) ==
  /\ pc = "idle"
  /\ inst[s].live
  /\ nhandles + 3 <= MaxHandles
  /\ LET r == with_nintervals(inst[s], n, heap, nhandles) IN
       /\ inst' = [inst EXCEPT ![s] = r.v]
       /\ heap' = r.heap
  /\ nhandles' = nhandles + 3
  /\ lastn' = [lastn EXCEPT ![s] = n]
  /\ last' = Done("with_nintervals", s, n)
  /\ UNCHANGED callvars

\* q = q.with_bound(b)
WithBound(s, b) ==
  /\ pc = "idle"
  /\ inst[s].live
  /\ LET r == with_bound(inst[s], b, heap) IN
       /\ inst' = [inst EXCEPT ![s] = r.v]
       /\ heap' = r.heap
  /\ last' = Done("with_bound", s, b)
  /\ UNCHANGED <<nhandles, lastn, callvars>>

\* q = q.with_sin(w)
WithSin(s, w) ==
  /\ pc = "idle"
  /\ inst[s].live
  /\ LET r == with_sin(inst[s], w, heap) IN
       /\ inst' = [inst EXCEPT ![s] = r.v]
       /\ heap' = r.heap
  /\ last' = Done("with_sin", s, w)
  /\ UNCHANGED <<nhandles, lastn, callvars>>

\* q = q.with_cos(w)
WithCos(s, w) ==
  /\ pc = "idle"
  /\ inst[s].live
  /\ LET r == with_cos(inst[s], w, heap) IN
       /\ inst' = [inst EXCEPT ![s] = r.v]
       /\ heap' = r.heap
  /\ last' = Done("with_cos", s, w)
  /\ UNCHANGED <<nhandles, lastn, callvars>>

\* let p = q.clone()
Clone(s, t) ==
  /\ pc = "idle"
  /\ inst[s].live
  /\ ~inst[t].live
  /\ nhandles + 3 <= MaxHandles
  /\ LET r == clone(inst[s], heap, nhandles) IN
       /\ inst' = [inst EXCEPT ![t] = r.v]
       /\ heap' = r.heap
  /\ nhandles' = nhandles + 3
  /\ lastn' = [lastn EXCEPT ![t] = lastn[s]]
  /\ last' = Done("clone", t, 0)
  /\ UNCHANGED callvars

\* q goes out of scope
Drop(s) ==
  /\ pc = "idle"
  /\ inst[s].live
  /\ inst' = [inst EXCEPT ![s] = NoQAWF]
  /\ heap' = drop(inst[s], heap)
  /\ lastn' = [lastn EXCEPT ![s] = 0]
  /\ last' = Done("drop", s, 0)
  /\ UNCHANGED <<nhandles, callvars>>

\* lines 72-77 of q.integrate(fun, epsrel, epsabs): the locals, the landing pad
\* and make_gsl_function; then either the early return of `?` or the entry into
\* gsl_integration_qawf with the arguments of lines 78-86
Enter(s, fun, epsrel, epsabs) ==
  /\ inst[s].live
  /\ call' = [slot |-> s, fun |-> fun, epsrel |-> epsrel, epsabs |-> epsabs]
  /\ value' = 0
  /\ error' = 0
  /\ retcode' = 0
  /\ lp' = LandingPad_new(fun)
  /\ LET self  == inst[s]
         gslfn == make_gsl_function(LandingPad_new(fun), self.lower_bound, self.lower_bound + 1)
     IN  IF enters_native(gslfn)
         THEN /\ pc' = "native"
              /\ native' = [NoNative EXCEPT !.ncalls = 1,
                                            !.args = qawf_args(self, gslfn, epsrel, epsabs)]
              /\ outcome' = NoOutcome
         ELSE /\ pc' = "done"
              /\ native' = NoNative
              /\ outcome' = MakeError(gslfn.err)
  /\ last' = Done("integrate", s, 0)
  /\ UNCHANGED qawfvars

\* q.integrate(fun, epsrel, epsabs) is called
IntegrateCall(s, fun, epsrel, epsabs) ==
  /\ pc = "idle"
  /\ prev' = NoPrev
  /\ Enter(s, fun, epsrel, epsabs)

\* the caller, having the outcome of one call, makes the same call again with
\* another relative tolerance
IntegrateAgain(epsrel) ==
  /\ pc = "done"
  /\ prev' = [set |-> TRUE, epsrel |-> call.epsrel, native |-> native,
              panicked |-> lp.panicked, outcome |-> outcome]
  /\ Enter(call.slot, call.fun, epsrel, call.epsabs)

\* gsl_integration_qawf is a function of its arguments and of what the integrand
\* returns: called again with the arguments of the call before, it evaluates the
\* integrand as often and returns the same
Repeats == prev.set /\ prev.native.ncalls = 1 /\ native.args = prev.native.args

\* inside gsl_integration_qawf: the routine evaluates the integrand once more
NativeEval ==
  /\ pc = "native"
  /\ native.evals < MaxEvals
  /\ Repeats => native.evals < prev.native.evals
  /\ native' = [native EXCEPT !.evals = @ + 1]
  /\ lp' = LandingPad_call(lp, native.evals + 1)
  /\ UNCHANGED <<qawfvars, last, pc, call, value, error, retcode, outcome, prev>>

\* gsl_integration_qawf returns code c, having written v and e through the
\* pointers to `value` and `error`
NativeReturn(c, v, e) ==
  /\ pc = "native"
  /\ Repeats => /\ native.evals = prev.native.evals
                /\ c = prev.native.retcode
                /\ v = prev.native.result
                /\ e = prev.native.abserr
  /\ pc' = "returned"
  /\ retcode' = c
  /\ value' = v
  /\ error' = e
  /\ native' = [native EXCEPT !.returned = TRUE, !.retcode = c, !.result = v, !.abserr = e]
  /\ UNCHANGED <<qawfvars, last, call, lp, outcome, prev>>

\* lines 88-96
Finish ==
  /\ pc = "returned"
  /\ pc' = "done"
  /\ outcome' = finish(lp, retcode, value, error)
  /\ UNCHANGED <<qawfvars, last, call, lp, value, error, retcode, native, prev>>

\* the caller takes the outcome; the frame of integrate is gone
IntegrateReturn ==
  /\ pc = "done"
  /\ pc' = "idle"
  /\ call' = NoCall
  /\ lp' = LandingPad_new(NoFun)
  /\ value' = 0
  /\ error' = 0
  /\ retcode' = 0
  /\ native' = NoNative
  /\ outcome' = NoOutcome
  /\ prev' = NoPrev
  /\ UNCHANGED <<qawfvars, last>>

\* ---------------------------------------------------------- specifications
\* the life of QAWF values: construction, the builder steps, clone and drop
Next ==
  \/ \E s \in Slots, n \in NVals : New(s, n)
  \/ \E s \in Slots, n \in NVals : WithNintervals(s, n)
  \/ \E s \in Slots, b \in Bounds : WithBound(s, b)
  \/ \E s \in Slots, w \in Omegas : WithSin(s, w)
  \/ \E s \in Slots, w \in Omegas : WithCos(s, w)
  \/ \E s, t \in Slots : Clone(s, t)
  \/ \E s \in Slots : Drop(s)

Spec == Init /\ [][Next]_vars

\* one QAWF, built by QAWF::new(n)
InitCall ==
  \E n \in NVals :
    /\ inst = [s \in Slots |-> IF s = "q" THEN new(n, [h \in Handles |-> NoObject], 0).v ELSE NoQAWF]
    /\ heap = new(n, [h \in Handles |-> NoObject], 0).heap
    /\ nhandles = 3
    /\ lastn = [s \in Slots |-> IF s = "q" THEN n ELSE 0]
    /\ last = Done("new", "q", n)
    /\ pc = "idle"
    /\ call = NoCall
    /\ lp = LandingPad_new(NoFun)
    /\ value = 0
    /\ error = 0
    /\ retcode = 0
    /\ native = NoNative
    /\ outcome = NoOutcome
    /\ prev = NoPrev

\* calls of integrate on one QAWF that the builder steps reconfigure in between
NextCall ==
  \/ \E n \in NVals : WithNintervals("q", n)
  \/ \E b \in Bounds : WithBound("q", b)
  \/ \E w \in Omegas : WithSin("q", w)
  \/ \E w \in Omegas : WithCos("q", w)
  \/ \E fun \in Integrands, epsrel \in Tols, epsabs \in Tols : IntegrateCall("q", fun, epsrel, epsabs)
  \/ NativeEval
  \/ \E c \in Codes, v \in Vals, e \in Vals : NativeReturn(c, v, e)
  \/ Finish
  \/ IntegrateReturn

SpecCall == InitCall /\ [][NextCall]_vars

\* the same call made again and again with other relative tolerances
NextPair ==
  \/ \E b \in Bounds : WithBound("q", b)
  \/ \E fun \in Integrands, epsrel \in Tols, epsabs \in Tols : IntegrateCall("q", fun, epsrel, epsabs)
  \/ \E epsrel \in Tols : IntegrateAgain(epsrel)
  \/ NativeEval
  \/ \E c \in Codes, v \in Vals, e \in Vals : NativeReturn(c, v, e)
  \/ Finish
  \/ IntegrateReturn

SpecPair == InitCall /\ [][NextPair]_vars

\* ----------------------------------------------------------------- claims
HandlesOf(q) == {q.wkspc.wkspc, q.cycle_wkspc.wkspc, q.table.table}
Live == {s \in Slots : inst[s].live}
\* the result of make_gsl_function in the call in flight
GslFn == make_gsl_function(LandingPad_new(call.fun), inst[call.slot].lower_bound,
                           inst[call.slot].lower_bound + 1)

\* C1: when the integrand panics while gsl_integration_qawf evaluates it, the
\* panic is held back while the routine runs, is resumed once the routine has
\* returned, and is the outcome of the call whatever the return code: the call
\* ends neither in Ok nor in Err.
C1_PanicResurfaces ==
  /\ (pc \in {"native", "returned"}) => outcome = NoOutcome
  /\ (pc = "done" /\ lp.panicked) => outcome = Panic
  /\ (outcome = Panic) => (pc = "done" /\ native.ncalls = 1 /\ native.returned /\ lp.panicked)

C1_Witness ==
  /\ pc = "done"
  /\ lp.panicked
  /\ native.returned
  /\ retcode # GSL_SUCCESS
  /\ outcome = Panic

\* C2: when the integrand did not panic and gsl_integration_qawf was called,
\* integrate returns Err(GSLError(c)) with the routine's return code c exactly
\* when c is not GSL_SUCCESS, and otherwise Ok with the value and the error
\* estimate the routine wrote.
C2_ReturnCodeTranslated ==
  (pc = "done" /\ ~lp.panicked /\ native.ncalls = 1) =>
     /\ (native.retcode # GSL_SUCCESS) <=> (outcome = GSLError(native.retcode))
     /\ (native.retcode = GSL_SUCCESS) <=> (outcome = Ok(native.result, native.abserr))

C2_Witness ==
  /\ pc = "done"
  /\ ~lp.panicked
  /\ native.retcode = GSL_SUCCESS
  /\ native.result # native.abserr
  /\ outcome = Ok(native.result, native.abserr)

\* C3: every live QAWF has both workspaces and its table allocated for the n of
\* its most recent new / with_nintervals, and that n is the limit integrate
\* passes to gsl_integration_qawf.
C3_CapacitiesMatchLimit ==
  \A s \in Live :
    LET q == inst[s] IN
      /\ heap[q.wkspc.wkspc].n = lastn[s]
      /\ heap[q.cycle_wkspc.wkspc].n = lastn[s]
      /\ heap[q.table.table].n = lastn[s]
      /\ \A fun \in Integrands, epsrel \in Tols, epsabs \in Tols :
           LET gslfn == make_gsl_function(LandingPad_new(fun), q.lower_bound, q.lower_bound + 1)
           IN  qawf_args(q, gslfn, epsrel, epsabs).limit = lastn[s]

C3_Witness ==
  /\ last.op = "clone"
  /\ Live = Slots
  /\ nhandles = 9
  /\ lastn["p"] = MaxN
  /\ \E h \in Handles : heap[h].frees = 1

\* C4: every native handle is owned by exactly one live QAWF: the three handles
\* of a QAWF are distinct, no two QAWFs share one, a handle in use has not been
\* released, and every handle no longer owned has been released exactly once.
C4_ExclusiveOwnership ==
  /\ \A s \in Live : Cardinality(HandlesOf(inst[s])) = 3
  /\ \A s, t \in Live : s # t => HandlesOf(inst[s]) \cap HandlesOf(inst[t]) = {}
  /\ \A s \in Live : \A h \in HandlesOf(inst[s]) :
       h \in 1..nhandles /\ heap[h].kind # "none" /\ heap[h].frees = 0
  /\ \A h \in 1..nhandles :
       (\A s \in Live : h \notin HandlesOf(inst[s])) => heap[h].frees = 1
  /\ \A h \in Handles : h > nhandles => heap[h] = NoObject

C4_Witness ==
  /\ last.op = "drop"
  /\ Live # {}
  /\ nhandles = 9
  /\ Cardinality({h \in Handles : heap[h].frees = 1}) = 6

\* C6: QAWF::new(n) yields lower bound 0, weight sine of frequency 1, and two
\* workspaces and a table allocated for n subintervals.
C6_NewDefaults ==
  last.op = "new" =>
    LET q == inst[last.slot] IN
      /\ q.live
      /\ q.lower_bound = 0
      /\ heap[q.table.table] = qawo_table_alloc(last.arg, 1, 1, Sine)
      /\ heap[q.wkspc.wkspc] = workspace_alloc(last.arg)
      /\ heap[q.cycle_wkspc.wkspc] = workspace_alloc(last.arg)
      /\ q.wkspc.nintervals = last.arg
      /\ q.cycle_wkspc.nintervals = last.arg

C6_Witness ==
  /\ last.op = "new"
  /\ last.arg = MaxN
  /\ inst[last.slot].live
  /\ nhandles > 3

\* C8: a builder step changes its own setting only: with_bound sets lower_bound
\* and leaves workspaces and table as they are; with_sin and with_cos set the
\* weight and its frequency and leave lower_bound and the workspaces as they
\* are; with_nintervals leaves lower_bound and the weight and its frequency.
SameWorkspaces(s) ==
  /\ inst'[s].wkspc = inst[s].wkspc
  /\ inst'[s].cycle_wkspc = inst[s].cycle_wkspc
  /\ heap'[inst[s].wkspc.wkspc] = heap[inst[s].wkspc.wkspc]
  /\ heap'[inst[s].cycle_wkspc.wkspc] = heap[inst[s].cycle_wkspc.wkspc]

WeightIs(s, sine, omega) ==
  /\ heap'[inst'[s].table.table].sine = sine
  /\ heap'[inst'[s].table.table].omega = omega
  /\ heap'[inst'[s].table.table].frees = 0

C8_BuilderFrame ==
  [][ /\ \A s \in Slots, b \in Bounds : WithBound(s, b) =>
           /\ inst'[s].lower_bound = b
           /\ SameWorkspaces(s)
           /\ inst'[s].table = inst[s].table
           /\ heap' = heap
      /\ \A s \in Slots, w \in Omegas : WithSin(s, w) =>
           /\ WeightIs(s, Sine, w)
           /\ inst'[s].lower_bound = inst[s].lower_bound
           /\ SameWorkspaces(s)
      /\ \A s \in Slots, w \in Omegas : WithCos(s, w) =>
           /\ WeightIs(s, Cosine, w)
           /\ inst'[s].lower_bound = inst[s].lower_bound
           /\ SameWorkspaces(s)
      /\ \A s \in Slots, n \in NVals : WithNintervals(s, n) =>
           /\ inst'[s].lower_bound = inst[s].lower_bound
           /\ WeightIs(s, heap[inst[s].table.table].sine, heap[inst[s].table.table].omega)
    ]_vars

C8_Witness ==
  /\ last.op = "with_cos"
  /\ last.arg = MaxOmega
  /\ inst[last.slot].lower_bound = MaxBound
  /\ heap[inst[last.slot].table.table].sine = Cosine
  /\ heap[inst[last.slot].table.table].omega = MaxOmega

\* C9: with_nintervals(n) replaces the buffers as a whole: the result holds two
\* workspaces allocated in the call, distinct from the old ones, and a table,
\* all of capacity n; both old workspaces are released; and no QAWF the caller
\* can see has buffers of two different capacities.
C9_WholeReplacement ==
  /\ [][ \A s \in Slots, n \in NVals : WithNintervals(s, n) =>
           LET old == inst[s]
               q   == inst'[s]
           IN  /\ q.wkspc.wkspc \notin HandlesOf(old)
               /\ q.cycle_wkspc.wkspc \notin HandlesOf(old)
               /\ q.wkspc.wkspc # q.cycle_wkspc.wkspc
               /\ heap[q.wkspc.wkspc] = NoObject
               /\ heap[q.cycle_wkspc.wkspc] = NoObject
               /\ heap'[q.wkspc.wkspc] = workspace_alloc(n)
               /\ heap'[q.cycle_wkspc.wkspc] = workspace_alloc(n)
               /\ q.wkspc.nintervals = n
               /\ q.cycle_wkspc.nintervals = n
               /\ heap'[q.table.table].kind = "qawo_table"
               /\ heap'[q.table.table].n = n
               /\ heap'[q.table.table].frees = 0
               /\ heap'[old.wkspc.wkspc].frees = 1
               /\ heap'[old.cycle_wkspc.wkspc].frees = 1
       ]_vars
  /\ [](\A s \in Live :
          /\ heap[inst[s].wkspc.wkspc].n = heap[inst[s].cycle_wkspc.wkspc].n
          /\ heap[inst[s].wkspc.wkspc].n = heap[inst[s].table.table].n
          /\ inst[s].wkspc.nintervals = inst[s].cycle_wkspc.nintervals)

C9_Witness ==
  /\ last.op = "with_nintervals"
  /\ last.arg = MaxN
  /\ nhandles = 6
  /\ inst[last.slot].wkspc.wkspc = 4
  /\ heap[1].frees = 1
  /\ heap[2].frees = 1
  /\ heap[4].n = MaxN

C7_OneNativeCall ==
  /\ native.ncalls <= 1
  /\ pc # "idle" => native.ncalls = (IF GslFn.ok THEN 1 ELSE 0)
  /\ (pc # "idle" /\ ~GslFn.ok) =>
        /\ pc = "done"
        /\ outcome = MakeError(GslFn.err)
        /\ native = NoNative
  /\ (outcome # NoOutcome /\ native.ncalls = 1) => native.returned
  /\ pc = "done" <=> outcome # NoOutcome

C7_Witness ==
  /\ pc = "done"
  /\ native.ncalls = 1
  /\ native.returned
  /\ native.evals = MaxEvals
  /\ outcome = GSLError(MaxCode)

\* C10: epsabs reaches gsl_integration_qawf unchanged and epsrel does not reach
\* it: the same call made again with another epsrel hands the routine the same
\* arguments and ends the same way.
C10_EpsrelIgnored ==
  /\ native.ncalls = 1 => native.args.epsabs = call.epsabs
  /\ prev.set => native.ncalls = prev.native.ncalls
  /\ prev.set => native.args = prev.native.args
  /\ (prev.set /\ pc = "done") => outcome = prev.outcome

C10_Witness ==
  /\ prev.set
  /\ prev.epsrel # call.epsrel
  /\ call.epsabs = MaxTol
  /\ native.ncalls = 1
  /\ pc = "done"
  /\ outcome.tag = "Ok"
====
